---- MODULE Spec2Model ----
(***************************************************************************)
(* Model of the DrillSargeant desktop backend (desktop/src-tauri/src/      *)
(* lib.rs): three Tauri commands, analyze_directory, get_system_info and   *)
(* watch_directory, registered by run() and dispatched by the host runtime *)
(* as independent asynchronous tasks.                                      *)
(*                                                                         *)
(* Strings that are concatenated or searched (paths, formatted replies,    *)
(* console lines) are sequences of one-character strings; a character      *)
(* outside ASCII is written by its code point ("U+1F50D").  Strings that   *)
(* are only compared for equality (the fields of an Issue) are TLA+        *)
(* strings.                                                                *)
(***************************************************************************)
EXTENDS Integers, Sequences, FiniteSets, TLC

(***************************************************************************)
(* Bounds of the model.                                                    *)
(***************************************************************************)
MaxCalls == 3

(***************************************************************************)
(* The path arguments the front-end passes: the empty string and a path    *)
(* with a trailing separator.                                              *)
(***************************************************************************)
Paths == {<<>>, <<"a", "/">>}

(***************************************************************************)
(* The host the binary was built for: std::env::consts::OS and ::ARCH.     *)
(***************************************************************************)
Hosts ==
    { [OS |-> <<"l", "i", "n", "u", "x">>, ARCH |-> <<"x", "8", "6", "_", "6", "4">>],
      [OS |-> <<"m", "a", "c", "o", "s">>, ARCH |-> <<"a", "a", "r", "c", "h", "6", "4">>] }

Commands == {"analyze_directory", "get_system_info", "watch_directory"}

VARIABLES
    host,    \* the build target: [OS, ARCH]
    calls,   \* the invocations in order of arrival: [cmd, args, pc, ret]
    ipc,     \* the messages exchanged with the front-end, in order
    stdout   \* the console: the lines printed so far

vars == <<host, calls, ipc, stdout>>

(***************************************************************************)
(* Result<T, String>.                                                      *)
(***************************************************************************)
Ok(v) == [tag |-> "Ok", value |-> v]
Err(e) == [tag |-> "Err", error |-> e]

(***************************************************************************)
(* format!: the literal pieces of the template with the Display form of    *)
(* the arguments between them.  pieces has one element more than args;     *)
(* Display of a String or &str writes its characters.                      *)
(***************************************************************************)
RECURSIVE format(_, _)
format(pieces, args) ==
    IF args = <<>> THEN Head(pieces)
    ELSE Head(pieces) \o Head(args) \o format(Tail(pieces), Tail(args))

(***************************************************************************)
(* println!: one more line on the console.                                 *)
(***************************************************************************)
println(out, line) == Append(out, line)

ANALYZING_PREFIX ==
    <<"U+1F50D", " ", "A", "n", "a", "l", "y", "z", "i", "n", "g", " ",
      "d", "i", "r", "e", "c", "t", "o", "r", "y", ":", " ">>

WATCHER_PREFIX ==
    <<"U+1F441", "U+FE0F", " ", "S", "e", "t", "t", "i", "n", "g", " ",
      "u", "p", " ", "f", "i", "l", "e", " ", "w", "a", "t", "c", "h", "e", "r",
      " ", "f", "o", "r", ":", " ">>

STARTED_MONITORING_PREFIX ==
    <<"S", "t", "a", "r", "t", "e", "d", " ", "m", "o", "n", "i", "t", "o",
      "r", "i", "n", "g", ":", " ">>

SYSTEM_INFO_HEAD ==
    <<"D", "r", "i", "l", "l", "S", "a", "r", "g", "e", "a", "n", "t", " ",
      "D", "e", "s", "k", "t", "o", "p", " ", "v", "1", ".", "0", "\n",
      "P", "l", "a", "t", "f", "o", "r", "m", ":", " ">>

SYSTEM_INFO_ARCH ==
    <<"\n", "A", "r", "c", "h", "i", "t", "e", "c", "t", "u", "r", "e", ":", " ">>

(***************************************************************************)
(* analyze_directory: the three Issue literals and the vec! of them.       *)
(***************************************************************************)
security_1 ==
    [ id |-> "security_1",
      title |-> "Potential XSS Vulnerability",
      description |-> "Direct innerHTML assignment without sanitization",
      severity |-> "high",
      issue_type |-> "security",
      file_path |-> "src/components/App.tsx",
      line_number |-> 42,
      code_snippet |-> "element.innerHTML = userInput;",
      recommendation |-> "Use textContent or sanitize input before assignment" ]

performance_1 ==
    [ id |-> "performance_1",
      title |-> "Inefficient CSS Selector",
      description |-> "Complex CSS selector may impact performance",
      severity |-> "medium",
      issue_type |-> "performance",
      file_path |-> "src/styles/main.css",
      line_number |-> 15,
      code_snippet |-> "div > ul > li:nth-child(odd) > a[href*='example']",
      recommendation |-> "Consider using CSS classes for better performance" ]

quality_1 ==
    [ id |-> "quality_1",
      title |-> "Unused Variable",
      description |-> "Variable declared but never used",
      severity |-> "low",
      issue_type |-> "quality",
      file_path |-> "src/utils/helpers.js",
      line_number |-> 8,
      code_snippet |-> "const unusedVar = 'not used';",
      recommendation |-> "Remove unused variables to improve code clarity" ]

\* Variant: the third issue is given the severity of the second.
issues_two_medium ==
    <<security_1, performance_1, [quality_1 EXCEPT !.severity = "medium"]>>

\* Variant: the third issue reuses the identifier of the first.
issues_dup_id ==
    <<security_1, performance_1, [quality_1 EXCEPT !.id = "security_1"]>>

issues == <<security_1, performance_1, quality_1>>

(***************************************************************************)
(* iss.iter().filter(|i| i.severity == sev).count()                        *)
(***************************************************************************)
RECURSIVE filter_count(_, _)
filter_count(iss, sev) ==
    IF iss = <<>> THEN 0
    ELSE (IF Head(iss).severity = sev THEN 1 ELSE 0) + filter_count(Tail(iss), sev)

\* Variant: the high count compares with "High", which no issue carries.
AnalysisSummary_case(iss) ==
    [ total_issues |-> Len(iss),
      high_severity |-> filter_count(iss, "High"),
      medium_severity |-> filter_count(iss, "medium"),
      low_severity |-> filter_count(iss, "low") ]

AnalysisSummary(iss) ==
    [ total_issues |-> Len(iss),
      high_severity |-> filter_count(iss, "high"),
      medium_severity |-> filter_count(iss, "medium"),
      low_severity |-> filter_count(iss, "low") ]

(***************************************************************************)
(* The value each command returns.                                         *)
(***************************************************************************)
\* Variant: the file counts follow the path argument.
analyze_directory_counts(path) ==
    Ok([ total_files |-> 127 + Len(path),
         analyzed_files |-> 89 + Len(path),
         issues |-> issues,
         summary |-> AnalysisSummary(issues) ])

\* Variant: an empty path yields an empty report.
analyze_directory_by_path(path) ==
    LET found == IF path = <<>> THEN <<>> ELSE issues
    IN  Ok([ total_files |-> 127,
             analyzed_files |-> 89,
             issues |-> found,
             summary |-> AnalysisSummary(found) ])

\* Variant: analyzed_files is a count shared by all calls (the console's
\* line count) instead of a constant.
analyze_directory_shared(path) ==
    Ok([ total_files |-> 127,
         analyzed_files |-> Len(stdout),
         issues |-> issues,
         summary |-> AnalysisSummary(issues) ])

analyze_directory(path) ==
    Ok([ total_files |-> 127,
         analyzed_files |-> 89,
         issues |-> issues,
         summary |-> AnalysisSummary(issues) ])

\* Variant: the two arguments of format! are exchanged.
get_system_info_swapped ==
    Ok(format(<<SYSTEM_INFO_HEAD, SYSTEM_INFO_ARCH, <<>> >>, <<host.ARCH, host.OS>>))

get_system_info ==
    Ok(format(<<SYSTEM_INFO_HEAD, SYSTEM_INFO_ARCH, <<>> >>, <<host.OS, host.ARCH>>))

\* Variant: an empty path is rejected.
watch_directory_checked(path) ==
    IF path = <<>> THEN Err(<<"e", "m", "p", "t", "y">>)
    ELSE Ok(format(<<STARTED_MONITORING_PREFIX, <<>> >>, <<path>>))

\* Variant: a trailing separator is dropped from the path before it is echoed.
watch_directory_trimmed(path) ==
    LET shown == IF path # <<>> /\ path[Len(path)] = "/"
                 THEN SubSeq(path, 1, Len(path) - 1) ELSE path
    IN  Ok(format(<<STARTED_MONITORING_PREFIX, <<>> >>, <<shown>>))

watch_directory(path) ==
    Ok(format(<<STARTED_MONITORING_PREFIX, <<>> >>, <<path>>))

(***************************************************************************)
(* An invocation as the runtime holds it: the command and its arguments,   *)
(* the position of its task ("start", "logged" once its line is printed,   *)
(* "done"), and the Result it returned once done (none before).            *)
(***************************************************************************)
Call(cmd, args) == [cmd |-> cmd, args |-> args, pc |-> "start", ret |-> <<>>]

(***************************************************************************)
(* The traffic with the front-end: which call was invoked or answered.     *)
(***************************************************************************)
InvokeMsg(id) == [kind |-> "invoke", id |-> id]
ResponseMsg(id) == [kind |-> "response", id |-> id]

Init ==
    /\ host \in Hosts
    /\ calls = <<>>
    /\ ipc = <<>>
    /\ stdout = <<>>

(***************************************************************************)
(* The front-end invokes a command: the handler registered by run() is     *)
(* spawned as a task of its own.                                           *)
(***************************************************************************)
Invoke(cmd, args) ==
    /\ Len(calls) < MaxCalls
    /\ calls' = Append(calls, Call(cmd, args))
    /\ ipc' = Append(ipc, InvokeMsg(Len(calls) + 1))
    /\ UNCHANGED <<host, stdout>>

Reply(id, ret) ==
    /\ calls' = [calls EXCEPT ![id].pc = "done", ![id].ret = <<ret>>]
    /\ ipc' = Append(ipc, ResponseMsg(id))

AnalyzeLog(id) ==
    /\ calls[id].cmd = "analyze_directory"
    /\ calls[id].pc = "start"
    /\ stdout' = println(stdout, format(<<ANALYZING_PREFIX, <<>> >>, <<calls[id].args[1]>>))
    /\ calls' = [calls EXCEPT ![id].pc = "logged"]
    /\ UNCHANGED <<host, ipc>>

AnalyzeReturn(id) ==
    /\ calls[id].cmd = "analyze_directory"
    /\ calls[id].pc = "logged"
    /\ Reply(id, analyze_directory(calls[id].args[1]))
    /\ UNCHANGED <<host, stdout>>

SystemInfoReturn(id) ==
    /\ calls[id].cmd = "get_system_info"
    /\ calls[id].pc = "start"
    /\ Reply(id, get_system_info)
    /\ UNCHANGED <<host, stdout>>

WatchLog(id) ==
    /\ calls[id].cmd = "watch_directory"
    /\ calls[id].pc = "start"
    /\ stdout' = println(stdout, format(<<WATCHER_PREFIX, <<>> >>, <<calls[id].args[1]>>))
    /\ calls' = [calls EXCEPT ![id].pc = "logged"]
    /\ UNCHANGED <<host, ipc>>

\* Variant: starting a watch restarts the other tasks in flight.
WatchReturn_restart(id) ==
    /\ calls[id].cmd = "watch_directory"
    /\ calls[id].pc = "logged"
    /\ calls' = [i \in DOMAIN calls |->
                    IF i = id
                    THEN [calls[i] EXCEPT !.pc = "done",
                                          !.ret = <<watch_directory(calls[id].args[1])>>]
                    ELSE IF calls[i].pc = "logged"
                         THEN [calls[i] EXCEPT !.pc = "start"]
                         ELSE calls[i]]
    /\ ipc' = Append(ipc, ResponseMsg(id))
    /\ UNCHANGED <<host, stdout>>

WatchReturn(id) ==
    /\ calls[id].cmd = "watch_directory"
    /\ calls[id].pc = "logged"
    /\ Reply(id, watch_directory(calls[id].args[1]))
    /\ UNCHANGED <<host, stdout>>

Next ==
    \/ \E p \in Paths : Invoke("analyze_directory", <<p>>)
    \/ Invoke("get_system_info", <<>>)
    \/ \E p \in Paths : Invoke("watch_directory", <<p>>)
    \/ \E id \in DOMAIN calls : AnalyzeLog(id)
    \/ \E id \in DOMAIN calls : AnalyzeReturn(id)
    \/ \E id \in DOMAIN calls : SystemInfoReturn(id)
    \/ \E id \in DOMAIN calls : WatchLog(id)
    \/ \E id \in DOMAIN calls : WatchReturn(id)

Spec == Init /\ [][Next]_vars

(***************************************************************************)
(* Reading the state: the calls made so far, the ones answered, what each  *)
(* was answered, and where in the traffic each was invoked and answered.   *)
(***************************************************************************)
CallIds == DOMAIN calls
Completed == {id \in CallIds : calls[id].pc = "done"}

InvokeAt(id) == CHOOSE i \in 1..Len(ipc) : ipc[i] = InvokeMsg(id)
ResponseAt(id) == CHOOSE i \in 1..Len(ipc) : ipc[i] = ResponseMsg(id)

CmdOf(id) == calls[id].cmd
ArgsOf(id) == calls[id].args
RetOf(id) == calls[id].ret[1]

CompletedOf(cmd) == {id \in Completed : CmdOf(id) = cmd}

SameCall(a, b) == CmdOf(a) = CmdOf(b) /\ ArgsOf(a) = ArgsOf(b)

\* b was in flight at some moment at which a was in flight.
Overlap(a, b) ==
    /\ a # b
    /\ InvokeAt(a) < ResponseAt(b)
    /\ InvokeAt(b) < ResponseAt(a)

\* No other call was in flight between a's invocation and a's response.
RanAlone(a) ==
    \A b \in CallIds \ {a} :
        \/ InvokeAt(b) > ResponseAt(a)
        \/ b \in Completed /\ ResponseAt(b) < InvokeAt(a)

\* sub occurs in s as a contiguous run of characters.
Contains(s, sub) ==
    \E i \in 0..(Len(s) - Len(sub)) : SubSeq(s, i + 1, i + Len(sub)) = sub

\* The number of issues of iss whose severity is sev.
NumWithSeverity(iss, sev) == Cardinality({i \in 1..Len(iss) : iss[i].severity = sev})

(***************************************************************************)
(* C1: whatever the path (the empty string included), analyze_directory    *)
(* returns 3 issues and the summary total_issues = 3, high_severity = 1,   *)
(* medium_severity = 1, low_severity = 1.                                  *)
(***************************************************************************)
C1_ThreeIssues ==
    \A id \in CompletedOf("analyze_directory") :
        /\ RetOf(id).tag = "Ok"
        /\ Len(RetOf(id).value.issues) = 3
        /\ RetOf(id).value.summary =
               [ total_issues |-> 3, high_severity |-> 1,
                 medium_severity |-> 1, low_severity |-> 1 ]

C1_Witness ==
    /\ \E id \in CompletedOf("analyze_directory") : ArgsOf(id) = << <<>> >>
    /\ \E id \in CompletedOf("analyze_directory") : ArgsOf(id) = << <<"a", "/">> >>

(***************************************************************************)
(* C2: no call of any of the three commands, after any sequence of calls   *)
(* with any arguments, is answered with Err: every answer is Ok.           *)
(***************************************************************************)
C2_NeverErr == \A id \in Completed : RetOf(id).tag = "Ok"

C2_Witness ==
    /\ \A cmd \in Commands : CompletedOf(cmd) # {}
    /\ \E id \in Completed : ArgsOf(id) = << <<>> >>
    /\ Completed = CallIds

(***************************************************************************)
(* C3: whatever the path, analyze_directory reports total_files = 127 and  *)
(* analyzed_files = 89.                                                    *)
(***************************************************************************)
C3_FileCounts ==
    \A id \in CompletedOf("analyze_directory") :
        /\ RetOf(id).tag = "Ok"
        /\ RetOf(id).value.total_files = 127
        /\ RetOf(id).value.analyzed_files = 89

C3_Witness ==
    \E a, b \in CompletedOf("analyze_directory") :
        /\ ArgsOf(a) # ArgsOf(b)
        /\ ResponseAt(a) < InvokeAt(b)

(***************************************************************************)
(* C4: watch_directory(X) answers Ok with "Started monitoring: " followed  *)
(* by X, so the answer contains "Started monitoring" and contains X as it  *)
(* was given.                                                              *)
(***************************************************************************)
C4_StartedMonitoring ==
    \A id \in CompletedOf("watch_directory") :
        LET X == ArgsOf(id)[1]
            r == RetOf(id)
        IN  /\ r.tag = "Ok"
            /\ r.value = <<"S", "t", "a", "r", "t", "e", "d", " ", "m", "o", "n",
                           "i", "t", "o", "r", "i", "n", "g", ":", " ">> \o X
            /\ Contains(r.value, <<"S", "t", "a", "r", "t", "e", "d", " ", "m", "o",
                                   "n", "i", "t", "o", "r", "i", "n", "g">>)
            /\ Contains(r.value, X)

C4_Witness ==
    /\ \E id \in CompletedOf("watch_directory") : ArgsOf(id) = << <<"a", "/">> >>
    /\ \E id \in CompletedOf("watch_directory") : ArgsOf(id) = << <<>> >>

(***************************************************************************)
(* C5: any two answers of analyze_directory are equal in every field,      *)
(* whatever the two paths and whatever calls came before.                  *)
(***************************************************************************)
C5_SameResult ==
    \A a, b \in CompletedOf("analyze_directory") : RetOf(a) = RetOf(b)

C5_Witness ==
    \E a, b \in CompletedOf("analyze_directory") :
        /\ ArgsOf(a) # ArgsOf(b)
        /\ \E c \in Completed \ {a, b} :
               /\ ResponseAt(a) < InvokeAt(c)
               /\ ResponseAt(c) < InvokeAt(b)

(***************************************************************************)
(* C6: get_system_info answers Ok with "DrillSargeant Desktop v1.0",       *)
(* a newline, "Platform: " and the host's OS name, a newline,              *)
(* "Architecture: " and the host's architecture name; the answer contains  *)
(* those three, and on one host every call gives the same answer.          *)
(***************************************************************************)
C6_SystemInfo ==
    LET version == <<"D", "r", "i", "l", "l", "S", "a", "r", "g", "e", "a", "n", "t",
                     " ", "D", "e", "s", "k", "t", "o", "p", " ", "v", "1", ".", "0">>
        platform == <<"\n", "P", "l", "a", "t", "f", "o", "r", "m", ":", " ">>
        architecture == <<"\n", "A", "r", "c", "h", "i", "t", "e", "c", "t", "u", "r",
                          "e", ":", " ">>
    IN  /\ \A id \in CompletedOf("get_system_info") :
               LET r == RetOf(id)
               IN  /\ r.tag = "Ok"
                   /\ r.value = version \o platform \o host.OS \o architecture \o host.ARCH
                   /\ Contains(r.value, version)
                   /\ Contains(r.value, host.OS)
                   /\ Contains(r.value, host.ARCH)
        /\ \A a, b \in CompletedOf("get_system_info") : RetOf(a) = RetOf(b)

C6_Witness ==
    \E a, b \in CompletedOf("get_system_info") :
        /\ a # b
        /\ \E c \in Completed : CmdOf(c) # "get_system_info"

(***************************************************************************)
(* C7: in every answer of analyze_directory, summary.total_issues is the   *)
(* length of the issue list and is the sum of the three severity counts,   *)
(* each of which is the number of returned issues of that severity.        *)
(***************************************************************************)
C7_SummaryCounts ==
    \A id \in CompletedOf("analyze_directory") :
        LET r == RetOf(id).value
        IN  /\ r.summary.total_issues = Len(r.issues)
            /\ r.summary.total_issues =
                   r.summary.high_severity + r.summary.medium_severity
                       + r.summary.low_severity
            /\ r.summary.high_severity = NumWithSeverity(r.issues, "high")
            /\ r.summary.medium_severity = NumWithSeverity(r.issues, "medium")
            /\ r.summary.low_severity = NumWithSeverity(r.issues, "low")

C7_Witness ==
    \E id \in CompletedOf("analyze_directory") :
        /\ RetOf(id).value.issues # <<>>
        /\ RetOf(id).value.summary.total_issues > 0

(***************************************************************************)
(* C8: a call answered while other calls were in flight gets the answer    *)
(* the same call gets when it runs alone: two calls of one command with    *)
(* the same arguments get the same answer, however they were interleaved   *)
(* with other calls.                                                       *)
(***************************************************************************)
C8_Interleaving ==
    \A a, b \in Completed : SameCall(a, b) => RetOf(a) = RetOf(b)

C8_Witness ==
    \E a, b, c \in Completed :
        /\ a # b
        /\ SameCall(a, b)
        /\ RanAlone(a)
        /\ Overlap(b, c)
        /\ Len(stdout) >= 2

(***************************************************************************)
(* C9: watch_directory changes nothing but the console: a step of a        *)
(* watch_directory task leaves the host and every other call as they were, *)
(* adds at most its own line to the console and its own answer to the      *)
(* traffic; and a call made after watch_directory calls were answered gets *)
(* the answer the same call got before any watch_directory call was made.  *)
(***************************************************************************)
C9_AfterWatch ==
    \A c, d \in Completed :
        ( /\ SameCall(c, d)
          /\ \E w \in CompletedOf("watch_directory") : ResponseAt(w) < InvokeAt(c)
          /\ \A w \in CallIds :
                 CmdOf(w) = "watch_directory" => InvokeAt(w) > ResponseAt(d) )
        => RetOf(c) = RetOf(d)

C9_WatchStepFrame ==
    \A id \in DOMAIN calls :
        (calls[id].cmd = "watch_directory" /\ calls'[id] # calls[id]) =>
            /\ host' = host
            /\ DOMAIN calls' = DOMAIN calls
            /\ \A other \in DOMAIN calls \ {id} : calls'[other] = calls[other]
            /\ \/ stdout' = stdout
               \/ /\ Len(stdout') = Len(stdout) + 1
                  /\ SubSeq(stdout', 1, Len(stdout)) = stdout
            /\ \/ ipc' = ipc
               \/ ipc' = Append(ipc, ResponseMsg(id))

C10_WellFormed ==
    \A id \in CompletedOf("analyze_directory") :
        LET iss == RetOf(id).value.issues
        IN  /\ \A i, j \in 1..Len(iss) : i # j => iss[i].id # iss[j].id
            /\ \A i \in 1..Len(iss) :
                   /\ iss[i].severity \in {"high", "medium", "low"}
                   /\ iss[i].issue_type \in {"security", "performance", "quality"}
                   /\ iss[i].line_number >= 1

C10_Witness ==
    \E id \in CompletedOf("analyze_directory") :
        /\ Len(RetOf(id).value.issues) > 1
        /\ RanAlone(id)

====
